---- MODULE Spec2Model ----
(***************************************************************************)
(* A model of S3Lock (kwojcicki/s3-lock): locks held in one S3 object,     *)
(* taken and given back with conditional PutObject requests (If-Match on   *)
(* an ETag, If-None-Match: * on absence).  One (bucket, key) is modelled;  *)
(* every await of the source that reaches the store is one atomic step.    *)
(***************************************************************************)
EXTENDS FiniteSets, Integers, Sequences, TLC

\* ------------------------------------------------------------------ bounds
NumClients == 2
MaxTag == 4
MaxCalls == 3

\* --------------------------------------------------------- program constants
DefaultMaxAttempts == 5

Clients == 1..NumClients
Initializer == 0

\* reads[c] and writes[c] stop counting one past the most a call may send
CountCap == DefaultMaxAttempts + 1
Count(n) == IF n < CountCap THEN n + 1 ELSE n

\* -------------------------------------------------------- bodies and JSON
\* A parsed lock body is a record of the fields the source ever looks at,
\* locked and testConditional, each "true", "false" or "absent" (a field the
\* object does not have).

JSONstringify(v) ==
    CASE v.locked = "true"  /\ v.testConditional = "absent" -> "{\"locked\":true}"
      [] v.locked = "false" /\ v.testConditional = "absent" -> "{\"locked\":false}"
      [] v.locked = "true"  /\ v.testConditional = "true"
            -> "{\"locked\":true,\"testConditional\":true}"
      [] v.locked = "false" /\ v.testConditional = "true"
            -> "{\"locked\":false,\"testConditional\":true}"
      [] v.locked = "false" /\ v.testConditional = "false"
            -> "{\"locked\":false,\"testConditional\":false}"
      [] v.locked = "absent" /\ v.testConditional = "absent" -> "{}"
      [] OTHER -> "{...}"

JSONparse(s) ==
    CASE s = "{\"locked\":true}"  -> [locked |-> "true",  testConditional |-> "absent"]
      [] s = "{\"locked\":false}" -> [locked |-> "false", testConditional |-> "absent"]
      [] s = "{\"locked\":true,\"testConditional\":true}"
            -> [locked |-> "true",  testConditional |-> "true"]
      [] s = "{\"locked\":false,\"testConditional\":true}"
            -> [locked |-> "false", testConditional |-> "true"]
      [] s = "{\"locked\":false,\"testConditional\":false}"
            -> [locked |-> "false", testConditional |-> "false"]
      [] OTHER -> [locked |-> "absent", testConditional |-> "absent"]

\* JSON.parse throws a SyntaxError on text that is not JSON; of such text
\* the model has the empty string, the body of a zero-length object
EmptyBody == ""
JSONparseThrows(s) == s = EmptyBody

\* JavaScript truthiness of a field: only the boolean true is truthy here.
Truthy(f) == f = "true"

LockedBody == JSONstringify([locked |-> "true", testConditional |-> "absent"])
UnlockedBody == JSONstringify([locked |-> "false", testConditional |-> "absent"])
EmptyObjectBody == JSONstringify([locked |-> "absent", testConditional |-> "absent"])
ExampleLockedBody == JSONstringify([locked |-> "true", testConditional |-> "true"])
ExampleUnlockedBody == JSONstringify([locked |-> "false", testConditional |-> "true"])
ExampleFlippedBody == JSONstringify([locked |-> "false", testConditional |-> "false"])

defaultConditional_Negated(body) == Truthy(JSONparse(body).locked)

\* defaultConditional: !JSON.parse(body)?.locked
defaultConditional(body) == ~Truthy(JSONparse(body).locked)

\* the conditional of the example driver: !locked && testConditional
exampleConditional(body) ==
    ~Truthy(JSONparse(body).locked) /\ Truthy(JSONparse(body).testConditional)

\* defaultGenerateBody: JSON.stringify({ locked: true })
defaultGenerateBody == LockedBody

\* ----------------------------------------------------------------- requests
\* An optional property is <<>> when the key is not in the object and <<v>>
\* when it is; the value "undefined" is a key that is present and undefined.
Nullish(opt, dflt) ==
    IF Len(opt) = 0 THEN dflt ELSE IF opt[1] = "undefined" THEN dflt ELSE opt[1]

\* the same for a number (maxAttempts), which the model never passes as undefined
NullishNumber(opt, dflt) == IF Len(opt) = 0 THEN dflt ELSE opt[1]

isCompareAndSwapLock_AnyCasProperty(lock) ==
    Len(lock.conditional) > 0 \/ Len(lock.maxAttempts) > 0

\* the conditional throws on this body (the two that parse it as JSON do)
ConditionalThrows(lock, body) ==
    /\ Nullish(lock.conditional, "defaultConditional")
          \in {"defaultConditional", "exampleConditional"}
    /\ JSONparseThrows(body)

\* isCompareAndSwapLock: 'conditional' in lock
isCompareAndSwapLock(lock) == Len(lock.conditional) > 0

Conditional(lock, body) ==
    LET name == Nullish(lock.conditional, "defaultConditional") IN
    CASE name = "defaultConditional" -> defaultConditional(body)
      [] name = "exampleConditional" -> exampleConditional(body)
      [] name = "alwaysTrue"         -> TRUE
      [] OTHER                       -> FALSE

GenerateBody(lock) == Nullish(lock.generateBody, defaultGenerateBody)

NoProps == [conditional |-> <<>>, maxAttempts |-> <<>>, generateBody |-> <<>>]

\* ------------------------------------------------------------------- state
VARIABLES
    obj,            \* the object at the lock key: [exists, body, etag]
    nextTag,        \* the ETag the store gives the next successful write
    issued,         \* every PutObject the core has sent: [op, precondition]
    pc,             \* pc[c]: where client c is in its current call
    props,          \* props[c]: the request of c's current (or last) acquireLock
    attempt,        \* attempt[c]: the loop counter of acquireLock
    getLatestETag,  \* getLatestETag[c]: the GetObject output of this attempt
    resp,           \* resp[c]: ETag of c's successful acquire put (0: no handle)
    outcome,        \* outcome[c]: how c's last finished call ended
    reads,          \* reads[c]: GetObject requests sent by c's current call
    writes,         \* writes[c]: PutObject requests sent by c's current call
    hist,           \* hist[c]: what has happened around c's call and handle
    initCalls,      \* calls of initializeLockFile so far (counted up to 2)
    initOutcome,    \* how the last initializeLockFile call ended
    stats,          \* stored acquire puts and stored release puts so far
    calls,          \* acquireLock calls made so far, by all clients
    tracing         \* whether hist records the races between calls

vars == <<obj, nextTag, issued, pc, props, attempt, getLatestETag, resp,
          outcome, reads, writes, hist, initCalls, initOutcome, stats, calls,
          tracing>>

\* the variables of the clients' calls, and those no client's step changes
callVars == <<pc, props, attempt, getLatestETag, resp, outcome, reads, writes>>
initVars == <<initCalls, initOutcome, tracing>>

NoObject == [exists |-> FALSE, body |-> "", etag |-> 0]
\* read: which read of its call gave the response (history, 0: none)
NoRead == [Body |-> "", ETag |-> 0, read |-> 0]
NoHist == [predTrue |-> FALSE, startHeld |-> FALSE, acqDuring |-> FALSE,
           relDuring |-> FALSE, intervened |-> FALSE, relCalled |-> FALSE,
           released |-> FALSE, mode |-> "none", wrote |-> FALSE]

\* ------------------------------------------------------------------- store
\* S3 PutObject: If-None-Match: * stores only when the key has no object,
\* If-Match stores only when the ETag given is the object's ETag; otherwise
\* 412 PreconditionFailed.  A request with neither header always stores.
PutAccepted(cmd) ==
    /\ Len(cmd.IfNoneMatch) > 0 => ~obj.exists
    /\ Len(cmd.IfMatch) > 0 => (obj.exists /\ obj.etag = cmd.IfMatch[1])

\* the object after a stored put: the store assigns a tag no write had before
Stored(cmd) == [exists |-> TRUE, body |-> cmd.Body, etag |-> nextTag]

Precondition(cmd) ==
    IF Len(cmd.IfNoneMatch) > 0 THEN "IfNoneMatch"
    ELSE IF Len(cmd.IfMatch) > 0 THEN "IfMatch" ELSE "none"

\* c has a handle on which it has not yet called release
Holding(c) == resp[c] # 0 /\ ~hist[c].relCalled

\* what the clients' histories record of a stored write of `kind` by w
Noted(w, kind, own) ==
    [d \in Clients |->
        IF d = w THEN own
        ELSE [hist[d] EXCEPT
                !.intervened = @ \/ (resp[d] # 0 /\ ~hist[d].released),
                !.acqDuring = @ \/ (tracing /\ kind = "acquire" /\ pc[d] # "idle"),
                !.relDuring = @ \/ (tracing /\ kind = "release" /\ pc[d] # "idle")]]

\* ----------------------------------------------------------------- commands
\* initializeLockFile: PutObject with Bucket, Key and Body alone
InitializePutCommand ==
    [IfMatch |-> <<>>, IfNoneMatch |-> <<>>, Body |-> UnlockedBody]

CasPutCommand_NoIfMatch(c) ==
    [IfMatch |-> <<>>, IfNoneMatch |-> <<>>, Body |-> GenerateBody(props[c])]

\* the put of the compare-and-swap branch: IfMatch: getLatestETag.ETag
CasPutCommand(c) ==
    [IfMatch |-> <<getLatestETag[c].ETag>>, IfNoneMatch |-> <<>>,
     Body |-> GenerateBody(props[c])]

ExistencePutCommand_NoPrecondition(c) ==
    [IfMatch |-> <<>>, IfNoneMatch |-> <<>>, Body |-> GenerateBody(props[c])]

\* the put of the existence branch: IfNoneMatch: "*"
ExistencePutCommand(c) ==
    [IfMatch |-> <<>>, IfNoneMatch |-> <<"*">>, Body |-> GenerateBody(props[c])]

ReleasePutCommand_TagBeforeAcquire(c, newBody) ==
    [IfMatch |-> <<resp[c] - 1>>, IfNoneMatch |-> <<>>, Body |-> newBody]

ReleasePutCommand_NoIfMatch(c, newBody) ==
    [IfMatch |-> <<>>, IfNoneMatch |-> <<>>, Body |-> newBody]

\* the put of release, the same in both handles: IfMatch: resp.ETag
ReleasePutCommand(c, newBody) ==
    [IfMatch |-> <<resp[c]>>, IfNoneMatch |-> <<>>, Body |-> newBody]

AfterRejectedPut_PutAgain == "put"

\* where a rejected compare-and-swap put leaves the call: at the delay of the
\* catch block, after which `continue` starts the next attempt with its read
AfterRejectedPut == "sleep"

AfterStoredPut_Continue == "sleep"

\* where a stored compare-and-swap put leaves the call: `return` ends it
AfterStoredPut == "idle"

ReleaseRejected_Swallowed == "released"

\* what release gives its caller when its put is rejected: the store's
\* error (name: PreconditionFailed), thrown as it is
ReleaseRejected == "PreconditionFailed"

IsPreconditionFailed_AnyError(name) == TRUE

\* the test of the catch blocks: error.name === 'PreconditionFailed'
IsPreconditionFailed(name) == name = "PreconditionFailed"

LoopContinues_OffByOne(n) == n >= 0

\* the loop condition of acquireLock, on the counter before its decrement
LoopContinues(n) == n > 0

\* ------------------------------------------------------------------ actions
\* The locals of a call (attempt, getLatestETag) are set back to their
\* initial values when the call returns or throws: they are out of scope.
Start ==
    /\ obj = NoObject
    /\ nextTag = 1
    /\ issued = {}
    /\ pc = [c \in Clients |-> "idle"]
    /\ props = [c \in Clients |-> NoProps]
    /\ attempt = [c \in Clients |-> 0]
    /\ getLatestETag = [c \in Clients |-> NoRead]
    /\ resp = [c \in Clients |-> 0]
    /\ outcome = [c \in Clients |-> "none"]
    /\ reads = [c \in Clients |-> 0]
    /\ writes = [c \in Clients |-> 0]
    /\ hist = [c \in Clients |-> NoHist]
    /\ initCalls = 0
    /\ initOutcome = "none"
    /\ stats = [wins |-> 0, releases |-> 0]
    /\ calls = 0

\* hist[c].startHeld, acqDuring and relDuring are history the program does
\* not keep; they are recorded where a claim reads them (InitTraced).
Init == Start /\ tracing = FALSE

InitTraced == Start /\ tracing = TRUE

\* initializeLockFile: one put; PreconditionFailed becomes LockNotAcquiredError
InitializeLockFile ==
    LET cmd == InitializePutCommand IN
    /\ PutAccepted(cmd) => nextTag <= MaxTag
    /\ issued' = issued \cup {[op |-> "initializeLockFile",
                               precondition |-> Precondition(cmd)]}
    /\ initCalls' = IF initCalls < 2 THEN initCalls + 1 ELSE initCalls
    /\ IF PutAccepted(cmd)
       THEN /\ obj' = Stored(cmd)
            /\ nextTag' = nextTag + 1
            /\ hist' = Noted(Initializer, "initialize", NoHist)
            /\ initOutcome' = "ok"
       ELSE /\ initOutcome' = "LockNotAcquiredError"
            /\ UNCHANGED <<obj, nextTag, hist>>
    /\ UNCHANGED <<callVars, stats, calls, tracing>>

\* acquireLock up to its first await: the destructuring and the dispatch
AcquireLock(c, p) ==
    /\ pc[c] = "idle"
    /\ resp[c] = 0 \/ hist[c].relCalled
    /\ calls < MaxCalls
    /\ calls' = calls + 1
    /\ props' = [props EXCEPT ![c] = p]
    /\ resp' = [resp EXCEPT ![c] = 0]
    /\ outcome' = [outcome EXCEPT ![c] = "pending"]
    /\ reads' = [reads EXCEPT ![c] = 0]
    /\ writes' = [writes EXCEPT ![c] = 0]
    /\ getLatestETag' = [getLatestETag EXCEPT ![c] = NoRead]
    /\ hist' = [hist EXCEPT ![c] =
                  [NoHist EXCEPT
                     !.startHeld = tracing /\ \E d \in Clients \ {c} : Holding(d),
                     !.mode = IF isCompareAndSwapLock(p) THEN "cas" ELSE "existence"]]
    /\ IF isCompareAndSwapLock(p)
       THEN /\ attempt' = [attempt EXCEPT
                             ![c] = NullishNumber(p.maxAttempts, DefaultMaxAttempts)]
            /\ pc' = [pc EXCEPT ![c] = "loop"]
       ELSE /\ attempt' = [attempt EXCEPT ![c] = 0]
            /\ pc' = [pc EXCEPT ![c] = "existPut"]
    /\ UNCHANGED <<obj, nextTag, issued, initVars, stats>>

\* while (attempt-- > 0): GetObject, then the conditional on what was read;
\* neither is inside the try block, so what they throw leaves the call
CasGet(c) ==
    /\ pc[c] = "loop"
    /\ LoopContinues(attempt[c])
    /\ reads' = [reads EXCEPT ![c] = Count(@)]
    /\ IF ~obj.exists
       THEN /\ outcome' = [outcome EXCEPT ![c] = "NoSuchKey"]
            /\ pc' = [pc EXCEPT ![c] = "idle"]
            /\ attempt' = [attempt EXCEPT ![c] = 0]
            /\ UNCHANGED <<getLatestETag, hist>>
       ELSE IF ConditionalThrows(props[c], obj.body)
       THEN /\ outcome' = [outcome EXCEPT ![c] = "SyntaxError"]
            /\ pc' = [pc EXCEPT ![c] = "idle"]
            /\ attempt' = [attempt EXCEPT ![c] = 0]
            /\ UNCHANGED <<getLatestETag, hist>>
       ELSE /\ getLatestETag' = [getLatestETag EXCEPT
                                   ![c] = [Body |-> obj.body, ETag |-> obj.etag,
                                           read |-> Count(reads[c])]]
            /\ attempt' = [attempt EXCEPT ![c] = @ - 1]
            /\ IF Conditional(props[c], obj.body)
               THEN /\ pc' = [pc EXCEPT ![c] = "put"]
                    /\ hist' = [hist EXCEPT ![c].predTrue = TRUE]
               ELSE /\ pc' = [pc EXCEPT ![c] = "sleep"]
                    /\ UNCHANGED hist
            /\ UNCHANGED outcome
    /\ UNCHANGED <<obj, nextTag, issued, props, resp, writes, initVars, calls, stats>>

\* the loop condition fails: throw new LockNotAcquiredError()
CasExhausted(c) ==
    /\ pc[c] = "loop"
    /\ ~LoopContinues(attempt[c])
    /\ attempt' = [attempt EXCEPT ![c] = 0]
    /\ getLatestETag' = [getLatestETag EXCEPT ![c] = NoRead]
    /\ outcome' = [outcome EXCEPT ![c] = "LockNotAcquiredError"]
    /\ pc' = [pc EXCEPT ![c] = "idle"]
    /\ UNCHANGED <<obj, nextTag, issued, props, resp, reads, writes, hist, initVars, calls,
                   stats>>

\* await new Promise(r => setTimeout(r, timeout)); continue
Sleep(c) ==
    /\ pc[c] = "sleep"
    /\ pc' = [pc EXCEPT ![c] = "loop"]
    /\ UNCHANGED <<obj, nextTag, issued, props, attempt, getLatestETag, resp,
                   outcome, reads, writes, hist, initVars, calls, stats>>

\* the conditional put of the compare-and-swap branch and what follows it
CasPut(c) ==
    LET cmd == CasPutCommand(c) IN
    /\ pc[c] = "put"
    /\ PutAccepted(cmd) => nextTag <= MaxTag
    /\ issued' = issued \cup {[op |-> "acquireCompareAndSwap",
                               precondition |-> Precondition(cmd)]}
    /\ writes' = [writes EXCEPT ![c] = Count(@)]
    /\ IF PutAccepted(cmd)
       THEN /\ obj' = Stored(cmd)
            /\ nextTag' = nextTag + 1
            /\ resp' = [resp EXCEPT ![c] = nextTag]
            /\ outcome' = [outcome EXCEPT ![c] = "handle"]
            /\ pc' = [pc EXCEPT ![c] = AfterStoredPut]
            /\ attempt' = [attempt EXCEPT ![c] = IF AfterStoredPut = "idle" THEN 0 ELSE @]
            /\ getLatestETag' = [getLatestETag EXCEPT ![c] = NoRead]
            /\ hist' = Noted(c, "acquire", [hist[c] EXCEPT !.wrote = TRUE])
            /\ stats' = [stats EXCEPT !.wins = @ + 1]
       ELSE /\ pc' = [pc EXCEPT ![c] = AfterRejectedPut]
            /\ UNCHANGED <<obj, nextTag, resp, outcome, hist, stats, attempt,
                           getLatestETag>>
    /\ UNCHANGED <<props, reads, initVars, calls>>

\* the one put of the existence branch and what follows it
ExistencePut(c) ==
    LET cmd == ExistencePutCommand(c) IN
    /\ pc[c] = "existPut"
    /\ PutAccepted(cmd) => nextTag <= MaxTag
    /\ issued' = issued \cup {[op |-> "acquireExistence",
                               precondition |-> Precondition(cmd)]}
    /\ writes' = [writes EXCEPT ![c] = Count(@)]
    /\ pc' = [pc EXCEPT ![c] = "idle"]
    /\ IF PutAccepted(cmd)
       THEN /\ obj' = Stored(cmd)
            /\ nextTag' = nextTag + 1
            /\ resp' = [resp EXCEPT ![c] = nextTag]
            /\ outcome' = [outcome EXCEPT ![c] = "handle"]
            /\ hist' = Noted(c, "acquire", [hist[c] EXCEPT !.wrote = TRUE])
            /\ stats' = [stats EXCEPT !.wins = @ + 1]
       ELSE /\ outcome' = [outcome EXCEPT ![c] = "LockNotAcquiredError"]
            /\ UNCHANGED <<obj, nextTag, resp, hist, stats>>
    /\ UNCHANGED <<props, attempt, getLatestETag, reads, initVars, calls>>

\* handle.release(newBody): one put, its error (if any) thrown as it is.
\* The record of the acquireLock call that gave the handle ends here.
Release(c, newBody) ==
    LET cmd == ReleasePutCommand(c, newBody)
        called == [hist[c] EXCEPT !.relCalled = TRUE, !.predTrue = FALSE,
                                  !.startHeld = FALSE, !.acqDuring = FALSE,
                                  !.relDuring = FALSE]
    IN
    /\ pc[c] = "idle"
    /\ resp[c] # 0
    /\ PutAccepted(cmd) => nextTag <= MaxTag
    /\ issued' = issued \cup {[op |-> "release", precondition |-> Precondition(cmd)]}
    /\ IF PutAccepted(cmd)
       THEN /\ obj' = Stored(cmd)
            /\ nextTag' = nextTag + 1
            /\ outcome' = [outcome EXCEPT ![c] = "released"]
            /\ hist' = Noted(c, "release", [called EXCEPT !.released = TRUE])
            /\ stats' = [stats EXCEPT !.releases = @ + 1]
       ELSE /\ outcome' = [outcome EXCEPT ![c] = ReleaseRejected]
            /\ hist' = [hist EXCEPT ![c] = called]
            /\ UNCHANGED <<obj, nextTag, stats>>
    /\ reads' = [reads EXCEPT ![c] = 0]
    /\ writes' = [writes EXCEPT ![c] = 0]
    /\ UNCHANGED <<pc, props, attempt, getLatestETag, resp, initVars, calls>>

\* ----------------------------------------------------------- store errors
\* The store may answer any request with an error that is not
\* PreconditionFailed; a request answered so has stored nothing.
StoreErrors == {"AccessDenied", "InternalError"}

\* GetObject throws e: the read is outside the try block, e leaves the call
CasGetError(c, e) ==
    /\ pc[c] = "loop"
    /\ LoopContinues(attempt[c])
    /\ reads' = [reads EXCEPT ![c] = Count(@)]
    /\ outcome' = [outcome EXCEPT ![c] = e]
    /\ pc' = [pc EXCEPT ![c] = "idle"]
    /\ attempt' = [attempt EXCEPT ![c] = 0]
    /\ UNCHANGED <<obj, nextTag, issued, props, getLatestETag, resp, writes, hist,
                   initVars, calls, stats>>

\* the compare-and-swap put throws e: the catch block delays and continues
\* on PreconditionFailed and throws every other error again
CasPutError(c, e) ==
    LET cmd == CasPutCommand(c) IN
    /\ pc[c] = "put"
    /\ issued' = issued \cup {[op |-> "acquireCompareAndSwap",
                               precondition |-> Precondition(cmd)]}
    /\ writes' = [writes EXCEPT ![c] = Count(@)]
    /\ IF IsPreconditionFailed(e)
       THEN /\ pc' = [pc EXCEPT ![c] = AfterRejectedPut]
            /\ UNCHANGED <<outcome, attempt, getLatestETag>>
       ELSE /\ outcome' = [outcome EXCEPT ![c] = e]
            /\ pc' = [pc EXCEPT ![c] = "idle"]
            /\ attempt' = [attempt EXCEPT ![c] = 0]
            /\ getLatestETag' = [getLatestETag EXCEPT ![c] = NoRead]
    /\ UNCHANGED <<obj, nextTag, props, resp, reads, hist, initVars, calls, stats>>

\* the existence put throws e: the catch block turns PreconditionFailed into
\* LockNotAcquiredError and throws every other error again
ExistencePutError(c, e) ==
    LET cmd == ExistencePutCommand(c) IN
    /\ pc[c] = "existPut"
    /\ issued' = issued \cup {[op |-> "acquireExistence",
                               precondition |-> Precondition(cmd)]}
    /\ writes' = [writes EXCEPT ![c] = Count(@)]
    /\ pc' = [pc EXCEPT ![c] = "idle"]
    /\ outcome' = [outcome EXCEPT
                     ![c] = IF IsPreconditionFailed(e) THEN "LockNotAcquiredError" ELSE e]
    /\ UNCHANGED <<obj, nextTag, props, attempt, getLatestETag, resp, reads, hist,
                   initVars, calls, stats>>

\* the put of release throws e: release has no catch block
ReleaseError(c, newBody, e) ==
    LET cmd == ReleasePutCommand(c, newBody) IN
    /\ pc[c] = "idle"
    /\ resp[c] # 0
    /\ issued' = issued \cup {[op |-> "release", precondition |-> Precondition(cmd)]}
    /\ outcome' = [outcome EXCEPT ![c] = e]
    /\ hist' = [hist EXCEPT ![c] = [@ EXCEPT !.relCalled = TRUE, !.predTrue = FALSE,
                                             !.startHeld = FALSE, !.acqDuring = FALSE,
                                             !.relDuring = FALSE]]
    /\ reads' = [reads EXCEPT ![c] = 0]
    /\ writes' = [writes EXCEPT ![c] = 0]
    /\ UNCHANGED <<obj, nextTag, pc, props, attempt, getLatestETag, resp, initVars,
                   calls, stats>>

\* --------------------------------------------------------- specifications
\* Spec: any client may send any request at any time, the initializer may
\* run at any time, and a handle may be released any number of times.
Requests ==
    { NoProps,
      [NoProps EXCEPT !.conditional = <<"defaultConditional">>, !.maxAttempts = <<1>>],
      [NoProps EXCEPT !.conditional = <<"alwaysTrue">>, !.maxAttempts = <<1>>] }

ReleaseBodies == {UnlockedBody, LockedBody}

Next ==
    \/ InitializeLockFile
    \/ \E c \in Clients :
          \/ \E p \in Requests : AcquireLock(c, p)
          \/ CasGet(c)
          \/ CasExhausted(c)
          \/ Sleep(c)
          \/ CasPut(c)
          \/ ExistencePut(c)
          \/ \E b \in ReleaseBodies : Release(c, b)

Spec == Init /\ [][Next]_vars

\* SpecCAS: the compare-and-swap protocol as the README describes its use.
\* The key is seeded once; every client asks with the default conditional
\* and the default body, and releases its handle once, with {locked:false}.
\* Client 1 also sends the request that leaves maxAttempts out; the others
\* always give it, which keeps the checked state space small.
CasRequests(c) ==
    { [NoProps EXCEPT !.conditional = <<"defaultConditional">>, !.maxAttempts = m] :
        m \in IF c = 1 THEN {<<>>, <<1>>, <<2>>} ELSE {<<1>>, <<2>>} }

NextCAS ==
    \/ initCalls = 0 /\ InitializeLockFile
    \/ \E c \in Clients :
          \/ \E p \in CasRequests(c) : AcquireLock(c, p)
          \/ CasGet(c)
          \/ CasExhausted(c)
          \/ Sleep(c)
          \/ CasPut(c)
          \/ ~hist[c].relCalled /\ Release(c, UnlockedBody)

SpecCAS == InitTraced /\ [][NextCAS]_vars

\* SpecExistence: a key with no object, and clients that only ever ask for
\* the existence lock and release the handles they get.
ExistenceRequests == { NoProps, [NoProps EXCEPT !.generateBody = <<ExampleLockedBody>>] }

NextExistence ==
    \E c \in Clients :
        \/ \E p \in ExistenceRequests : AcquireLock(c, p)
        \/ ExistencePut(c)
        \/ \E b \in ReleaseBodies : Release(c, b)

SpecExistence == Init /\ [][NextExistence]_vars

\* SpecFaulty: both protocols on a key seeded at most once, against a store
\* that may answer any read or put with an error of StoreErrors.  A handle
\* may be released any number of times.  A call starts, and a release or the
\* seeding is sent, only while the store has a tag left for every call in
\* flight.
FaultyRequests ==
    { NoProps,
      [NoProps EXCEPT !.conditional = <<"defaultConditional">>, !.maxAttempts = <<2>>] }

InFlight == Cardinality({c \in Clients : pc[c] # "idle"})

TagsLeft == nextTag + InFlight <= MaxTag

NextFaulty ==
    \/ initCalls = 0 /\ TagsLeft /\ InitializeLockFile
    \/ \E c \in Clients :
          \/ \E p \in FaultyRequests : TagsLeft /\ AcquireLock(c, p)
          \/ CasGet(c)
          \/ CasExhausted(c)
          \/ Sleep(c)
          \/ CasPut(c)
          \/ ExistencePut(c)
          \/ TagsLeft /\ Release(c, UnlockedBody)
          \/ \E e \in StoreErrors :
                \/ CasGetError(c, e)
                \/ CasPutError(c, e)
                \/ ExistencePutError(c, e)
                \/ ReleaseError(c, UnlockedBody, e)

SpecFaulty == Init /\ [][NextFaulty]_vars

\* SpecCASFair: the compare-and-swap calls of SpecFaulty, where no call is
\* left waiting for ever: the store answers every request, every timer fires
\* and the event loop runs the continuation of every settled await.  An
\* answer that is an error ends the wait as well, so it is enough to ask that
\* the step of the other answer is not put off for ever.  Nothing is assumed
\* about when calls start or whether handles are released.
FairRequests ==
    { [NoProps EXCEPT !.conditional = <<"defaultConditional">>, !.maxAttempts = <<m>>] :
        m \in {1, 2} }

NextCASFair ==
    \/ initCalls = 0 /\ TagsLeft /\ InitializeLockFile
    \/ \E c \in Clients :
          \/ \E p \in FairRequests : TagsLeft /\ AcquireLock(c, p)
          \/ CasGet(c)
          \/ CasExhausted(c)
          \/ Sleep(c)
          \/ CasPut(c)
          \/ ~hist[c].relCalled /\ TagsLeft /\ Release(c, UnlockedBody)
          \/ \E e \in StoreErrors : CasGetError(c, e) \/ CasPutError(c, e)

CallStep(c) == CasGet(c) \/ CasExhausted(c) \/ Sleep(c) \/ CasPut(c)

SpecCASFair ==
    /\ Init
    /\ [][NextCASFair]_vars
    /\ \A c \in Clients : WF_vars(CallStep(c))

\* SpecMixed: the two protocols on one key, as in the example's handler: the
\* key holds no object until an existence lock creates it, clients ask for
\* either lock with the default conditional and the default body, and each
\* handle is released once, with {locked:false} or {locked:true}.  One of
\* the existence requests carries a maxAttempts, which that branch ignores.
MixedRequests ==
    { NoProps,
      [NoProps EXCEPT !.maxAttempts = <<2>>],
      [NoProps EXCEPT !.conditional = <<"defaultConditional">>, !.maxAttempts = <<2>>] }

NextMixed ==
    \E c \in Clients :
        \/ \E p \in MixedRequests : AcquireLock(c, p)
        \/ CasGet(c)
        \/ CasExhausted(c)
        \/ Sleep(c)
        \/ CasPut(c)
        \/ ExistencePut(c)
        \/ \E b \in ReleaseBodies : ~hist[c].relCalled /\ Release(c, b)

SpecMixed == Init /\ [][NextMixed]_vars

\* SpecBodies: the compare-and-swap protocol with the default conditional on
\* a key seeded once, where a handle is released once with any body: locked,
\* unlocked, an object with no locked field, or nothing at all.
BodyRequests ==
    { [NoProps EXCEPT !.conditional = <<"defaultConditional">>, !.maxAttempts = <<m>>] :
        m \in {1, 2} }

ReleasedBodies == {UnlockedBody, LockedBody, EmptyObjectBody, EmptyBody}

NextBodies ==
    \/ initCalls = 0 /\ InitializeLockFile
    \/ \E c \in Clients :
          \/ \E p \in BodyRequests : AcquireLock(c, p)
          \/ CasGet(c)
          \/ CasExhausted(c)
          \/ Sleep(c)
          \/ CasPut(c)
          \/ \E b \in ReleasedBodies : ~hist[c].relCalled /\ Release(c, b)

SpecBodies == Init /\ [][NextBodies]_vars

\* ------------------------------------------------------------------ claims
\* c's acquireLock call has returned or thrown, and c has done nothing since
Finished(c) ==
    pc[c] = "idle" /\ outcome[c] \in {"handle", "LockNotAcquiredError", "NoSuchKey"}

\* c has made at least one acquireLock call and is in none now
Called(c) == pc[c] = "idle" /\ outcome[c] \notin {"none", "pending"}

\* the attempts a request allows, as the documentation states them
Allowed(lock) == IF Len(lock.maxAttempts) = 0 THEN 5 ELSE lock.maxAttempts[1]

\* the times the object has been written unlocked while the key was free
Windows == (IF initOutcome = "ok" THEN 1 ELSE 0) + stats.releases

\* C1: with the key seeded once and clients that take the lock in
\* compare-and-swap mode (default conditional, default body) and release it
\* with an unlocked body, at most one client is between its successful
\* acquire and its release, in every reachable state.
C1_MutualExclusion == Cardinality({c \in Clients : Holding(c)}) <= 1

\* a client holds the lock while another, which read the object unlocked
\* before the holder's put, is about to send its own put
C1_Witness ==
    \E c, d \in Clients :
        /\ c # d
        /\ Holding(c)
        /\ hist[c].mode = "cas"
        /\ pc[d] = "put"
        /\ getLatestETag[d].Body = UnlockedBody

\* C2: of the existence-mode calls made on a key that had no object, exactly
\* one returns a handle and every other one throws LockNotAcquiredError.
C2_ExistenceExactlyOne ==
    /\ stats.wins <= 1
    /\ \A c \in Clients : Called(c) => (resp[c] # 0 \/ outcome[c] = "LockNotAcquiredError")
    /\ (\A c \in Clients : Called(c)) => stats.wins = 1

\* every client has finished a call; one has the handle, the others have
\* LockNotAcquiredError
C2_Witness ==
    /\ \A c \in Clients : Finished(c)
    /\ \E c \in Clients :
          /\ outcome[c] = "handle"
          /\ \A d \in Clients \ {c} : outcome[d] = "LockNotAcquiredError" /\ writes[d] = 1

\* C3: among concurrent compare-and-swap acquires (maxAttempts >= 1, default
\* conditional) on a seeded key, each unlocked window is taken by one acquire
\* and no more, a call loses only to a winner (a client that held the lock
\* when the call began or took it while the call ran), and a release opens
\* the next window, which again one acquire takes.
C3_RaceResolution ==
    /\ stats.wins <= Windows
    /\ Windows <= stats.wins + 1
    /\ (obj.exists /\ obj.body = UnlockedBody) <=> (Windows = stats.wins + 1)
    /\ \A c \in Clients :
          (Finished(c) /\ outcome[c] = "LockNotAcquiredError")
              => (hist[c].startHeld \/ hist[c].acqDuring)

\* the second window has been taken, and a client that raced for it lost
C3_Witness ==
    /\ stats.wins = 2
    /\ \E c \in Clients :
          /\ Finished(c)
          /\ outcome[c] = "LockNotAcquiredError"
          /\ hist[c].acqDuring
          /\ writes[c] >= 1

\* C6: a compare-and-swap acquire whose conditional is false on every read
\* throws LockNotAcquiredError after exactly maxAttempts reads (5 when the
\* request leaves maxAttempts out) and no write; no call reads more often
\* than that.
C6_RetryBound ==
    \A c \in Clients :
        /\ hist[c].mode = "cas" => reads[c] <= Allowed(props[c])
        /\ (Finished(c) /\ hist[c].mode = "cas" /\ ~hist[c].predTrue
                /\ outcome[c] # "NoSuchKey")
              => /\ outcome[c] = "LockNotAcquiredError"
                 /\ reads[c] = Allowed(props[c])
                 /\ writes[c] = 0

\* a call that left maxAttempts out has failed after five reads and no write
C6_Witness ==
    \E c \in Clients :
        /\ Finished(c)
        /\ Len(props[c].maxAttempts) = 0
        /\ ~hist[c].predTrue
        /\ outcome[c] = "LockNotAcquiredError"
        /\ reads[c] = 5
        /\ writes[c] = 0

\* C7 as stated: a compare-and-swap acquire started while another client
\* holds the lock always ends in LockNotAcquiredError.
C7_StartedWhileHeldFails ==
    \A c \in Clients :
        (Finished(c) /\ hist[c].mode = "cas" /\ hist[c].startHeld)
            => outcome[c] = "LockNotAcquiredError"

\* C7 as amended: a compare-and-swap acquire that starts while another client
\* holds the lock and ends before any release uses up its attempts and
\* throws LockNotAcquiredError; an acquire that starts when no client holds
\* the seeded key, and during which no other acquire succeeds, returns a
\* handle.
C7_HeldThenReleased ==
    \A c \in Clients :
        /\ (Finished(c) /\ hist[c].mode = "cas" /\ hist[c].startHeld
               /\ ~hist[c].relDuring)
              => /\ outcome[c] = "LockNotAcquiredError"
                 /\ reads[c] = Allowed(props[c])
                 /\ writes[c] = 0
        /\ (Finished(c) /\ hist[c].mode = "cas" /\ ~hist[c].startHeld
               /\ ~hist[c].acqDuring /\ outcome[c] # "NoSuchKey")
              => /\ outcome[c] = "handle"
                 /\ Holding(c)

\* after a release, one client holds the lock again while another has used
\* up its attempts against the holder
C7_Witness ==
    /\ stats.releases >= 1
    /\ \E c, d \in Clients :
          /\ c # d
          /\ Holding(c)
          /\ ~hist[c].startHeld
          /\ Finished(d)
          /\ hist[d].startHeld
          /\ ~hist[d].relDuring
          /\ outcome[d] = "LockNotAcquiredError"

\* C4: when another write to the key has been stored since a handle's
\* acquire put, a release call on that handle fails and leaves the object's
\* body and ETag as that other write left them.
C4_StaleHandleDetected ==
    [][\A c \in Clients : \A b \in ReleaseBodies :
          (Release(c, b) /\ hist[c].intervened)
              => (obj' = obj /\ outcome'[c] = "PreconditionFailed")]_vars

\* a handle made stale by another write has been released in vain
C4_Witness ==
    \E c \in Clients :
        /\ hist[c].intervened
        /\ ~hist[c].released
        /\ outcome[c] = "PreconditionFailed"
        /\ obj.etag # resp[c]

\* C5: the second initializeLockFile call on a key fails with
\* LockNotAcquiredError and leaves the object's body and ETag as they were.
C5_SecondInitializeFails ==
    [][(initCalls = 1 /\ initCalls' = 2)
          => (initOutcome' = "LockNotAcquiredError" /\ obj' = obj)]_vars

\* C8: once a release call on a handle has succeeded, any further release
\* call on that handle fails and leaves the object as it is, whatever the
\* bodies passed.
C8_ReleaseNotIdempotent ==
    [][\A c \in Clients : \A b \in ReleaseBodies :
          (Release(c, b) /\ hist[c].released)
              => (obj' = obj /\ outcome'[c] = "PreconditionFailed")]_vars

\* a handle has been released with success and then once more, in vain,
\* with no other client's write in between
C8_Witness ==
    \E c \in Clients :
        /\ hist[c].released
        /\ ~hist[c].intervened
        /\ outcome[c] = "PreconditionFailed"

\* C9: an existence-mode acquire on a key that has an object throws
\* LockNotAcquiredError and leaves the object as it is; and no step of the
\* core takes the object away, so that after the first stored existence put
\* every later existence acquire fails.
C9_ExistenceOnExistingFails ==
    [][/\ obj.exists => obj'.exists
       /\ \A c \in Clients :
             (ExistencePut(c) /\ obj.exists)
                 => /\ obj' = obj
                    /\ outcome'[c] = "LockNotAcquiredError"
                    /\ resp'[c] = 0]_vars

\* an existence acquire has failed on a key whose existence lock another
\* client had taken and already released
C9_Witness ==
    \E c, d \in Clients :
        /\ c # d
        /\ hist[c].mode = "existence"
        /\ Finished(c)
        /\ outcome[c] = "LockNotAcquiredError"
        /\ hist[d].mode = "existence"
        /\ hist[d].released

\* C10: every put the core sends to the lock key carries a precondition,
\* If-None-Match or If-Match.
C10_EveryWriteConditional == \A w \in issued : w.precondition # "none"
\* C11: an error of the store that is not PreconditionFailed is never taken
\* for contention.  In a compare-and-swap acquire such an error on the read
\* (the NoSuchKey of a key that holds no object included) or on the put ends
\* the call in that step with that very error: no delay, no further read or
\* put, no LockNotAcquiredError.  The existence acquire and release pass the
\* error on unchanged too.  Nothing is stored by the failed request.
C11_StoreErrorsPropagate ==
    [][\A c \in Clients :
         /\ \A e \in StoreErrors :
               /\ CasGetError(c, e) \/ CasPutError(c, e) \/ ExistencePutError(c, e)
                    => /\ pc'[c] = "idle"
                       /\ outcome'[c] = e
                       /\ reads'[c] + writes'[c] = reads[c] + writes[c] + 1
                       /\ obj' = obj
               /\ \A b \in ReleaseBodies :
                    ReleaseError(c, b, e) => outcome'[c] = e /\ obj' = obj
         /\ CasGet(c) /\ ~obj.exists
              => /\ pc'[c] = "idle"
                 /\ outcome'[c] = "NoSuchKey"
                 /\ reads'[c] = reads[c] + 1
                 /\ writes'[c] = writes[c]
                 /\ obj' = obj]_vars

\* a compare-and-swap call that has ended with the store's error on its put
C11_Witness ==
    \E c \in Clients :
        /\ pc[c] = "idle"
        /\ hist[c].mode = "cas"
        /\ outcome[c] \in StoreErrors
        /\ writes[c] = 1

\* C12: in every attempt of a compare-and-swap acquire the put is sent only
\* when the predicate was true on the body that the read of that same
\* attempt returned, and its If-Match is the tag of that same read; a call
\* has sent fewer puts than reads whenever it is about to put, so a rejected
\* put is always followed by a new read before the next put.
C12_PutUsesThisAttemptsRead ==
    \A c \in Clients :
        pc[c] = "put"
            => /\ getLatestETag[c].read = reads[c]
               /\ Conditional(props[c], getLatestETag[c].Body)
               /\ CasPutCommand(c).IfMatch = <<getLatestETag[c].ETag>>
               /\ writes[c] < reads[c]

\* a call about to put in its second attempt, after its first put was
\* rejected, with a tag newer than the one it read first
C12_Witness ==
    \E c \in Clients :
        /\ pc[c] = "put"
        /\ reads[c] = 2
        /\ writes[c] = 1
        /\ getLatestETag[c].ETag > 2

\* C13: attempts whose predicate is false and attempts whose put is rejected
\* draw on one budget.  A compare-and-swap acquire sends at most maxAttempts
\* reads and never more puts than reads, whatever the other clients do; a
\* call that ends without a handle and without an error of the store has
\* used every attempt and ends with LockNotAcquiredError.
C13_SharedAttemptBudget ==
    \A c \in Clients :
        hist[c].mode = "cas" /\ ~hist[c].relCalled
            => /\ reads[c] <= Allowed(props[c])
               /\ writes[c] <= reads[c]
               /\ Finished(c) /\ resp[c] = 0 /\ outcome[c] # "NoSuchKey"
                    => /\ outcome[c] = "LockNotAcquiredError"
                       /\ reads[c] = Allowed(props[c])

\* a failed call of two attempts: one put that was rejected, one read that
\* found the predicate false
C13_Witness ==
    \E c \in Clients :
        /\ Finished(c)
        /\ outcome[c] = "LockNotAcquiredError"
        /\ Allowed(props[c]) = 2
        /\ reads[c] = 2
        /\ writes[c] = 1

\* C14: every compare-and-swap acquire ends, whatever the other clients do,
\* once its own steps are scheduled fairly: a call in its loop is eventually
\* back with its caller, with a handle, with LockNotAcquiredError or with an
\* error of the store.
C14_CasAcquireTerminates ==
    \A c \in Clients :
        (pc[c] \in {"loop", "put", "sleep"})
            ~> (/\ pc[c] = "idle"
                /\ outcome[c] \in {"handle", "LockNotAcquiredError", "NoSuchKey"}
                                      \cup StoreErrors)

\* a call that went round its loop twice and has ended
C14_Witness ==
    \E c \in Clients :
        /\ pc[c] = "idle"
        /\ hist[c].mode = "cas"
        /\ outcome[c] \in {"handle", "LockNotAcquiredError"} \cup StoreErrors
        /\ reads[c] = 2
        /\ writes[c] >= 1

\* C15: the handle carries the tag that the store gave the acquire's own
\* put.  In either mode, when no other write has been stored since that put,
\* the first release of the handle is stored: release returns and the body
\* of the object is the newBody it was given, under a tag newer than the
\* handle's.
C15_FirstReleaseSucceeds ==
    [][\A c \in Clients : \A b \in ReleaseBodies :
         Release(c, b) /\ ~hist[c].relCalled /\ ~hist[c].intervened
            => /\ outcome'[c] = "released"
               /\ obj'.exists
               /\ obj'.body = b
               /\ obj'.etag > resp[c]]_vars

\* an existence lock whose first release, with {locked:false}, was stored
\* directly on top of the acquire's put
C15_Witness ==
    \E c \in Clients :
        /\ hist[c].mode = "existence"
        /\ outcome[c] = "released"
        /\ ~hist[c].intervened
        /\ obj.body = UnlockedBody
        /\ obj.etag = resp[c] + 1

\* C16: one acquireLock call runs one protocol, chosen by whether the request
\* carries a conditional.  A request that carries one goes to the loop of
\* the compare-and-swap branch and its puts are never If-None-Match puts.  A
\* request that carries none, whether or not it carries a maxAttempts, goes
\* to the existence branch: it sends no read, takes no delay, and its first
\* request to the store, one If-None-Match put, ends the call.
C16_OneProtocolPerCall ==
    [][\A c \in Clients :
         /\ \A p \in MixedRequests :
               AcquireLock(c, p)
                  => IF Len(p.conditional) > 0
                     THEN pc'[c] = "loop"
                     ELSE pc'[c] = "existPut"
         /\ CasGet(c) \/ CasExhausted(c) \/ Sleep(c) \/ CasPut(c)
              => Len(props[c].conditional) > 0
         /\ CasPut(c) => Precondition(CasPutCommand(c)) # "IfNoneMatch"
         /\ ExistencePut(c)
              => /\ Len(props[c].conditional) = 0
                 /\ Precondition(ExistencePutCommand(c)) = "IfNoneMatch"
                 /\ reads[c] = 0 /\ writes[c] = 0
                 /\ reads'[c] = 0 /\ writes'[c] = 1
                 /\ pc'[c] = "idle"]_vars

\* a request with no conditional but with maxAttempts has failed on an
\* object that exists, after one put and no read
C16_Witness ==
    \E c \in Clients :
        /\ Called(c)
        /\ Len(props[c].conditional) = 0
        /\ Len(props[c].maxAttempts) > 0
        /\ outcome[c] = "LockNotAcquiredError"
        /\ reads[c] = 0
        /\ writes[c] = 1

\* C17: a release whose put the store rejects fails in a way of its own.
\* What its caller gets is not a return, not LockNotAcquiredError and none
\* of the store's other errors; and no acquireLock call ever ends with it:
\* a caller holding that failure knows a release was rejected.
C17_RejectedReleaseIsDistinct ==
    /\ [][\A c \in Clients : \A b \in ReleaseBodies :
            Release(c, b) /\ ~PutAccepted(ReleasePutCommand(c, b))
               => /\ outcome'[c] \notin {"released", "handle", "LockNotAcquiredError",
                                         "NoSuchKey"} \cup StoreErrors
                  /\ obj' = obj]_vars
    /\ [](\A c \in Clients :
            outcome[c] = ReleaseRejected => hist[c].relCalled /\ pc[c] = "idle")
    /\ [][\A c \in Clients :
            outcome'[c] = ReleaseRejected /\ outcome[c] # ReleaseRejected
               => \E b \in ReleaseBodies :
                     Release(c, b) /\ ~PutAccepted(ReleasePutCommand(c, b))]_vars

\* a second release of a handle has been rejected after the first was stored
C17_Witness ==
    \E c \in Clients :
        /\ outcome[c] = "PreconditionFailed"
        /\ hist[c].released
        /\ obj.etag # resp[c]

C19_FailedAcquireStoresNothing ==
    /\ [](\A c \in Clients :
            Finished(c) /\ outcome[c] = "LockNotAcquiredError"
               => ~hist[c].wrote /\ resp[c] = 0)
    /\ [][\A c \in Clients :
            /\ CasGet(c) \/ CasExhausted(c) \/ Sleep(c) \/ CasPut(c) \/ ExistencePut(c)
            /\ outcome'[c] # "handle"
            => /\ obj' = obj
               /\ \A d \in Clients \ {c} :
                     /\ resp'[d] = resp[d]
                     /\ resp[d] # 0 /\ obj.etag = resp[d] => obj'.etag = resp'[d]]_vars

\* a compare-and-swap call has failed after a rejected put while another
\* client's handle still matches the object
C19_Witness ==
    \E c \in Clients : \E d \in Clients \ {c} :
        /\ Finished(c)
        /\ hist[c].mode = "cas"
        /\ outcome[c] = "LockNotAcquiredError"
        /\ writes[c] >= 1
        /\ Holding(d)
        /\ obj.etag = resp[d]

\* C20: mutual exclusion across the two modes on one key.  At most one
\* client is between its acquire and its release; while a client holds the
\* existence lock it took with the default body, no compare-and-swap call
\* with the default conditional has its put stored; and a compare-and-swap
\* put is stored only over {locked:false}, which is there only once the
\* holder of the existence lock has released with that body.
C20_CrossModeMutualExclusion ==
    /\ [](Cardinality({c \in Clients : Holding(c)}) <= 1)
    /\ [](\A c \in Clients :
            hist[c].mode = "cas" /\ resp[c] # 0 => stats.releases >= 1)
    /\ [][\A c \in Clients :
            CasPut(c) /\ obj' # obj
               => /\ \A d \in Clients : ~Holding(d)
                  /\ obj.body = UnlockedBody
                  /\ stats.releases >= 1]_vars

\* a client holds the compare-and-swap lock on the key that another client
\* created as an existence lock and released
C20_Witness ==
    \E c \in Clients : \E d \in Clients \ {c} :
        /\ Holding(c)
        /\ hist[c].mode = "cas"
        /\ hist[d].mode = "existence"
        /\ hist[d].released

====
